---- MODULE Spec2Model ----
(***************************************************************************)
(* Two programs of the observability lab.                                  *)
(*                                                                         *)
(*  - 3-LangGraph/music_router.py: the graph START -> agent ->             *)
(*    {action | END}, action -> agent, over a MessagesState.  GraphSpec.   *)
(*  - 1-OpenAIAgents/weekend_planner.py: main(), the root span around      *)
(*    Runner.run with its try/except.  SessionSpec.                        *)
(*                                                                         *)
(* The language model, Runner.run and ToolNode are library code: what the  *)
(* scripts do not fix about them is a nondeterministic choice.             *)
(***************************************************************************)
EXTENDS Naturals, Sequences, FiniteSets

VARIABLES
    node,        \* music_router: the graph node about to run
    messages,    \* music_router: state["messages"]
    raised,      \* music_router: the exception leaving APP.stream, or "none"
    agentCount,  \* music_router: times the agent node was entered
    actionCount, \* music_router: times the action node was entered
    modelCalls,  \* music_router: MODEL.invoke calls made
    pc,          \* weekend_planner: position in main()
    spanStarts,  \* weekend_planner: root spans started
    spanEnds,    \* weekend_planner: times the root span was ended
    writes,      \* weekend_planner: the root span's set_attribute calls, in order
    recorded,    \* weekend_planner: exceptions given to span.record_exception
    run,         \* weekend_planner: what Runner.run did
    output,      \* weekend_planner: the local variable output
    printed,     \* weekend_planner: the texts print() wrote
    inflight,    \* weekend_planner: the exception propagating, or NoExc
    caller       \* weekend_planner: what asyncio.run(main()) got back

graphVars == <<node, messages, raised, agentCount, actionCount, modelCalls>>
sessionVars == <<pc, spanStarts, spanEnds, writes, recorded, run, output,
                 printed, inflight, caller>>
vars == <<node, messages, raised, agentCount, actionCount, modelCalls,
          pc, spanStarts, spanEnds, writes, recorded, run, output,
          printed, inflight, caller>>

\* Tool-calling model responses one run may hold.
MaxRounds == 3

\* Longest final_output tried.
MaxOutLen == 502

Min(a, b) == IF a < b THEN a ELSE b

Last(s) == s[Len(s)]

(***************************************************************************)
(* music_router.py                                                         *)
(***************************************************************************)

\* The tools given to ToolNode and bind_tools.
RegisteredTools == {"play_song_on_spotify", "play_song_on_apple"}

\* Tool names a model response may carry: the registered ones and one more.
RequestedNames == RegisteredTools \cup {"play_song_on_tidal"}

Song == "Shake It Off"

play_song_on_spotify(song) == <<"Successfully played ", song, " on Spotify!">>

play_song_on_apple(song) == <<"Successfully played ", song, " on Apple Music!">>

input_message ==
    [role |-> "human", tool_calls |-> <<>>, call_id |-> 0, name |-> "",
     content |-> <<"Can you play Taylor Swift's most popular song?">>,
     status |-> "success"]

\* The tool_calls lists a model response may carry; <<>> is a final answer.
ToolCallNames ==
    { <<>> }
    \cup { <<n>> : n \in RequestedNames }
    \cup { <<"play_song_on_spotify", "play_song_on_apple">>,
           <<"play_song_on_apple", "play_song_on_tidal">> }

ToolCalls(names) ==
    [i \in 1..Len(names) |-> [name |-> names[i], id |-> i]]

AIMessage(names) ==
    [role |-> "ai", tool_calls |-> ToolCalls(names), call_id |-> 0,
     name |-> "", content |-> <<>>, status |-> "success"]

ModelResponses == { AIMessage(names) : names \in ToolCallNames }

\* should_continue reading the message before the model's response.
should_continue_stale(state) ==
    LET last_message == state[Len(state) - 1]
    IN  IF last_message.tool_calls = <<>> THEN "end" ELSE "continue"

\* return "end" if not last_message.tool_calls else "continue"
should_continue(state) ==
    LET last_message == state[Len(state)]
    IN  IF last_message.tool_calls = <<>> THEN "end" ELSE "continue"

\* MessagesState: an update's messages are added at the end of the list.
add_messages(left, right) == left \o right

\* call_model's return value for the model's response.
call_model(state, response) == <<response>>

\* add_conditional_edges("agent", should_continue, {...})
ConditionalEdge(route) == IF route = "continue" THEN "action" ELSE "END"

\* The action node wired to END instead of back to agent.
ActionEdge_ToEnd == "END"

\* add_edge("action", "agent")
ActionEdge == "agent"

\* add_edge(START, "agent")
StartEdge == "agent"

\* The ToolMessage of one executed call of a registered tool.
ToolMessage(call) ==
    [role |-> "tool", tool_calls |-> <<>>, call_id |-> call.id,
     name |-> call.name,
     content |-> IF call.name = "play_song_on_spotify"
                 THEN play_song_on_spotify(Song)
                 ELSE play_song_on_apple(Song),
     status |-> "success"]

\* What ToolNode gives back for a call it could not run.
ToolErrorMessage(call) ==
    [role |-> "tool", tool_calls |-> <<>>, call_id |-> call.id,
     name |-> call.name, content |-> <<"Error">>, status |-> "error"]

Permutations(n) ==
    { p \in [1..n -> 1..n] : \A i, j \in 1..n : p[i] = p[j] => i = j }

\* ToolNode runs the calls of the last message.  The order of its result
\* list is the library's: any order.
ToolNodeResults(calls) ==
    { [i \in 1..Len(calls) |->
          IF calls[p[i]].name \in RegisteredTools
          THEN ToolMessage(calls[p[i]])
          ELSE ToolErrorMessage(calls[p[i]])] : p \in Permutations(Len(calls)) }

\* Whether ToolNode turns an unrunnable call into a message or raises is the
\* library's: both.
ToolNodeMayRaise(calls) ==
    \E i \in 1..Len(calls) : calls[i].name \notin RegisteredTools

ToolRounds ==
    Cardinality({ i \in 1..Len(messages) :
                    messages[i].role = "ai" /\ messages[i].tool_calls # <<>> })

GraphIdle ==
    /\ node = "START"
    /\ messages = <<>>
    /\ raised = "none"
    /\ agentCount = 0
    /\ actionCount = 0
    /\ modelCalls = 0

\* APP.stream({"messages": [input_message]}, config): the input is added to
\* the thread's (empty) list and the START edge is followed.
Start ==
    /\ node = "START"
    /\ raised = "none"
    /\ messages' = add_messages(messages, <<input_message>>)
    /\ node' = StartEdge
    /\ agentCount' = agentCount + 1
    /\ UNCHANGED <<raised, actionCount, modelCalls>>
    /\ UNCHANGED sessionVars

\* The agent node: MODEL.invoke returns, the response is added, and the
\* conditional edge is taken.
AgentReturns ==
    /\ node = "agent"
    /\ raised = "none"
    /\ \E response \in ModelResponses :
          /\ response.tool_calls # <<>> => ToolRounds < MaxRounds
          /\ messages' = add_messages(messages, call_model(messages, response))
    /\ modelCalls' = modelCalls + 1
    /\ node' = ConditionalEdge(should_continue(messages'))
    /\ actionCount' = IF node' = "action" THEN actionCount + 1 ELSE actionCount
    /\ agentCount' = IF node' = "agent" THEN agentCount + 1 ELSE agentCount
    /\ UNCHANGED raised
    /\ UNCHANGED sessionVars

\* call_model catching the failure and returning an error message.
AgentRaises_AppendsError ==
    /\ node = "agent"
    /\ raised = "none"
    /\ modelCalls' = modelCalls + 1
    /\ raised' = "model"
    /\ messages' = add_messages(messages, <<AIMessage(<<>>)>>)
    /\ UNCHANGED <<node, agentCount, actionCount>>
    /\ UNCHANGED sessionVars

\* The agent node: MODEL.invoke raises, so call_model returns nothing and
\* the exception leaves the graph.
AgentRaises ==
    /\ node = "agent"
    /\ raised = "none"
    /\ modelCalls' = modelCalls + 1
    /\ raised' = "model"
    /\ UNCHANGED <<node, messages, agentCount, actionCount>>
    /\ UNCHANGED sessionVars

\* The action node: ToolNode's messages are added and the edge to agent is
\* followed.
ActionReturns ==
    /\ node = "action"
    /\ raised = "none"
    /\ \E results \in ToolNodeResults(Last(messages).tool_calls) :
          messages' = add_messages(messages, results)
    /\ node' = ActionEdge
    /\ agentCount' = IF node' = "agent" THEN agentCount + 1 ELSE agentCount
    /\ actionCount' = IF node' = "action" THEN actionCount + 1 ELSE actionCount
    /\ UNCHANGED <<raised, modelCalls>>
    /\ UNCHANGED sessionVars

\* The action node: ToolNode raises.
ActionRaises ==
    /\ node = "action"
    /\ raised = "none"
    /\ ToolNodeMayRaise(Last(messages).tool_calls)
    /\ raised' = "tool"
    /\ UNCHANGED <<node, messages, agentCount, actionCount, modelCalls>>
    /\ UNCHANGED sessionVars

(***************************************************************************)
(* weekend_planner.py (OpenAI Agents)                                      *)
(***************************************************************************)

\* output[:500]
ResponseLimit == 500

NoExc == [id |-> "none", isException |-> FALSE]

\* Runner.run failing.
RunnerError == [id |-> "RunnerError", isException |-> TRUE]

\* print(output) failing.
PrintError == [id |-> "PrintError", isException |-> TRUE]

\* The task being cancelled at the await: a BaseException, not an Exception.
CancelledError == [id |-> "CancelledError", isException |-> FALSE]

\* A text of n characters; v varies its content.
Text(n, v) == [i \in 1..n |-> (i + v) % 3]

\* result.final_output: None, or a text.
None == [isNone |-> TRUE, text |-> <<>>]

Str(text) == [isNone |-> FALSE, text |-> text]

FinalOutputs == {None} \cup { Str(Text(n, v)) : n \in 0..MaxOutLen, v \in 0..1 }

\* result.final_output or "": None and "" are falsy.
OrEmpty(final_output) ==
    IF final_output.isNone \/ final_output.text = <<>>
    THEN <<>>
    ELSE final_output.text

StrValue(text) == [type |-> "str", text |-> text]

BoolValue(flag) == [type |-> "bool", flag |-> flag]

\* The response recorded whole.
Truncate_Off(s) == s

\* output[:500]
Truncate(s) == SubSeq(s, 1, Min(Len(s), ResponseLimit))

set_attribute(log, key, value) == Append(log, [key |-> key, value |-> value])

Written(key) == \E i \in 1..Len(writes) : writes[i].key = key

LastWrite(key) ==
    CHOOSE i \in 1..Len(writes) :
        /\ writes[i].key = key
        /\ \A j \in 1..Len(writes) : writes[j].key = key => j <= i

\* The attribute's value on the span: the last write wins.
Attr(key) == writes[LastWrite(key)].value

SessionIdle ==
    /\ pc = "start"
    /\ spanStarts = 0
    /\ spanEnds = 0
    /\ writes = <<>>
    /\ recorded = <<>>
    /\ run = [kind |-> "pending"]
    /\ output = <<>>
    /\ printed = <<>>
    /\ inflight = NoExc
    /\ caller = [kind |-> "running"]

\* with tracer.start_as_current_span(...) as span: and the five attributes.
StartSpan ==
    /\ pc = "start"
    /\ spanStarts' = spanStarts + 1
    /\ writes' = set_attribute(set_attribute(set_attribute(set_attribute(
                     set_attribute(writes,
                         "user.request", StrValue(Text(42, 0))),
                         "gen_ai.provider.name", StrValue(Text(18, 1))),
                         "gen_ai.request.model", StrValue(Text(6, 2))),
                         "agent.name", StrValue(Text(15, 0))),
                         "target.city", StrValue(Text(7, 1)))
    /\ pc' = "run"
    /\ UNCHANGED <<spanEnds, recorded, run, output, printed, inflight, caller>>
    /\ UNCHANGED graphVars

\* result = await Runner.run(AGENT, input=user_request) returns.
RunnerReturns ==
    /\ pc = "run"
    /\ \E final_output \in FinalOutputs :
          run' = [kind |-> "returned", final_output |-> final_output]
    /\ pc' = "print"
    /\ UNCHANGED <<spanStarts, spanEnds, writes, recorded, output, printed,
                   inflight, caller>>
    /\ UNCHANGED graphVars

\* await Runner.run(...) raises: an Exception, or the task's cancellation.
RunnerRaises ==
    /\ pc = "run"
    /\ \E exc \in {RunnerError, CancelledError} :
          /\ run' = [kind |-> "raised", exc |-> exc]
          /\ inflight' = exc
          /\ pc' = IF exc.isException THEN "except" ELSE "exit"
    /\ UNCHANGED <<spanStarts, spanEnds, writes, recorded, output, printed,
                   caller>>
    /\ UNCHANGED graphVars

\* output = result.final_output or ""; print(output)
PrintOutput ==
    /\ pc = "print"
    /\ output' = OrEmpty(run.final_output)
    /\ \/ /\ printed' = Append(printed, output')
          /\ pc' = "annotate"
          /\ UNCHANGED inflight
       \/ /\ inflight' = PrintError
          /\ pc' = "except"
          /\ UNCHANGED printed
    /\ UNCHANGED <<spanStarts, spanEnds, writes, recorded, run, caller>>
    /\ UNCHANGED graphVars

\* agent.response, request.success = True, LOGGER.info: the try block's end.
Annotate ==
    /\ pc = "annotate"
    /\ writes' = set_attribute(set_attribute(writes,
                     "agent.response", StrValue(Truncate(output))),
                     "request.success", BoolValue(TRUE))
    /\ pc' = "exit"
    /\ UNCHANGED <<spanStarts, spanEnds, recorded, run, output, printed,
                   inflight, caller>>
    /\ UNCHANGED graphVars

\* The handler without its raise: main() returns normally.
Handler_Swallows ==
    /\ pc = "except"
    /\ inflight.isException
    /\ recorded' = Append(recorded, inflight)
    /\ writes' = set_attribute(writes, "request.success", BoolValue(FALSE))
    /\ inflight' = NoExc
    /\ pc' = "exit"
    /\ UNCHANGED <<spanStarts, spanEnds, run, output, printed, caller>>
    /\ UNCHANGED graphVars

\* except Exception as exc: record_exception, request.success = False,
\* LOGGER.exception, raise.
Handler ==
    /\ pc = "except"
    /\ inflight.isException
    /\ recorded' = Append(recorded, inflight)
    /\ writes' = set_attribute(writes, "request.success", BoolValue(FALSE))
    /\ pc' = "exit"
    /\ UNCHANGED <<spanStarts, spanEnds, run, output, printed, inflight, caller>>
    /\ UNCHANGED graphVars

\* Leaving the with block ends the span; main() returns or raises to
\* asyncio.run(main()).
ExitWith ==
    /\ pc = "exit"
    /\ spanEnds' = spanEnds + 1
    /\ caller' = IF inflight = NoExc
                 THEN [kind |-> "returned"]
                 ELSE [kind |-> "raised", exc |-> inflight]
    /\ pc' = "done"
    /\ UNCHANGED <<spanStarts, writes, recorded, run, output, printed, inflight>>
    /\ UNCHANGED graphVars

(***************************************************************************)
(* Specifications                                                          *)
(***************************************************************************)

GraphInit == GraphIdle /\ SessionIdle

GraphNext ==
    \/ Start
    \/ AgentReturns
    \/ AgentRaises
    \/ ActionReturns
    \/ ActionRaises

GraphSpec == GraphInit /\ [][GraphNext]_vars

SessionInit == GraphIdle /\ SessionIdle

SessionNext ==
    \/ StartSpan
    \/ RunnerReturns
    \/ RunnerRaises
    \/ PrintOutput
    \/ Annotate
    \/ Handler
    \/ ExitWith

SessionSpec == SessionInit /\ [][SessionNext]_vars

(***************************************************************************)
(* Claims about music_router.py, under GraphSpec                           *)
(***************************************************************************)

LastIsFinalAnswer ==
    /\ Len(messages) > 0
    /\ Last(messages).role = "ai"
    /\ Last(messages).tool_calls = <<>>

\* C1: when the model has returned N responses with tool calls and then one
\* without, the graph is at END, having entered action exactly N times and
\* agent exactly N+1 times; on the way the counts follow the rounds: at
\* agent, N+1 agent entries and N action entries; at action, N of each.
C1_RoundCounts ==
    /\ LastIsFinalAnswer => node = "END"
    /\ node = "END" =>
          /\ LastIsFinalAnswer
          /\ actionCount = ToolRounds
          /\ agentCount = ToolRounds + 1
    /\ node = "agent" =>
          /\ actionCount = ToolRounds
          /\ agentCount = ToolRounds + 1
    /\ node = "action" =>
          /\ actionCount = ToolRounds
          /\ agentCount = ToolRounds

\* The three tool rounds of the Seattle scenario: 3 action, 4 agent, END.
C1_Witness ==
    /\ node = "END"
    /\ ToolRounds = 3
    /\ actionCount = 3
    /\ agentCount = 4

\* C2: a step out of agent adds the model's response and goes to action if
\* that last message has tool calls and to END if it has none; a step out
\* of action goes to agent; no step leaves END; action is entered only with
\* tool calls in the last message.
C2_Routing ==
    [][ /\ (node = "agent" /\ node' # node) =>
              /\ Len(messages') = Len(messages) + 1
              /\ Last(messages').role = "ai"
              /\ (node' = "action") <=> (Last(messages').tool_calls # <<>>)
              /\ (node' = "END") <=> (Last(messages').tool_calls = <<>>)
        /\ (node = "action" /\ node' # node) => node' = "agent"
        /\ node = "END" => UNCHANGED vars
        /\ (node' = "action" /\ node # "action") =>
              Last(messages').tool_calls # <<>> ]_vars

\* Both routes taken: agent -> action -> agent -> END.
C2_Witness ==
    /\ node = "END"
    /\ actionCount >= 1
    /\ Len(messages) >= 4

\* C7: a MODEL.invoke that raises adds no message, enters no node and
\* leaves the graph as the run's exception; a model call that added no
\* message raised; and after it nothing runs: no action step, no further
\* model call, no retry.
C7_ModelFailureAborts ==
    [][ /\ (raised = "none" /\ raised' = "model") =>
              /\ node = "agent"
              /\ modelCalls' = modelCalls + 1
              /\ UNCHANGED <<node, messages, agentCount, actionCount>>
        /\ (modelCalls' # modelCalls /\ Len(messages') = Len(messages)) =>
              raised' = "model"
        /\ raised = "model" => UNCHANGED vars ]_vars

\* The model fails on its second call, after one tool round.
C7_Witness ==
    /\ raised = "model"
    /\ modelCalls = 2
    /\ actionCount = 1
    /\ Len(messages) = 3

(***************************************************************************)
(* Claims about weekend_planner.py, under SessionSpec                      *)
(***************************************************************************)

SuccessKey == "request.success"

ResponseKey == "agent.response"

\* C4: main() is left only with the root span ended once; if Runner.run
\* raised an Exception, that exception was recorded on the span,
\* request.success is False and the caller gets the same exception; the
\* caller gets a normal return only after Runner.run returned and the
\* final output was printed.
C4_FailureAnnotatedAndReraised ==
    /\ caller.kind # "running" => pc = "done"
    /\ pc = "done" =>
          /\ spanStarts = 1
          /\ spanEnds = 1
          /\ caller.kind \in {"returned", "raised"}
          /\ (run.kind = "raised" /\ run.exc.isException) =>
                /\ recorded = <<run.exc>>
                /\ Written(SuccessKey)
                /\ Attr(SuccessKey) = BoolValue(FALSE)
                /\ caller = [kind |-> "raised", exc |-> run.exc]
          /\ run.kind = "raised" => caller.kind = "raised"
          /\ caller.kind = "returned" =>
                /\ run.kind = "returned"
                /\ printed = <<OrEmpty(run.final_output)>>

\* Runner.run raised and main() has re-raised to its caller.
C4_Witness ==
    /\ pc = "done"
    /\ run.kind = "raised"
    /\ run.exc = RunnerError
    /\ recorded = <<RunnerError>>
    /\ caller = [kind |-> "raised", exc |-> RunnerError]

\* The try block ran to its end.
TryCompleted == run.kind = "returned" /\ inflight = NoExc

\* What the claim says of the attributes once the span has closed.
SuccessContract ==
    /\ Written(SuccessKey)
    /\ (Attr(SuccessKey) = BoolValue(TRUE)) <=> TryCompleted
    /\ Attr(SuccessKey) \in {BoolValue(TRUE), BoolValue(FALSE)}
    /\ Attr(SuccessKey) = BoolValue(TRUE) =>
          /\ Written(ResponseKey)
          /\ Attr(ResponseKey) =
                StrValue(SubSeq(OrEmpty(run.final_output), 1,
                                Min(Len(OrEmpty(run.final_output)), 500)))
          /\ Len(Attr(ResponseKey).text) <= 500
          /\ LastWrite(ResponseKey) < LastWrite(SuccessKey)

====
